---- MODULE Spec2Model ----
(***************************************************************************)
(* Model of src/main.py: class Schedule.                                   *)
(*                                                                         *)
(* Text is a sequence of one-character strings ("08:30" is                 *)
(* <<"0","8",":","3","0">>), so that parsing and formatting are computed.  *)
(* A csv row is a 6-tuple <<id, origin, destination, price, dep, arr>> of  *)
(* such texts.  Vertex numbers are 0-based as in the code; the rows of a   *)
(* matrix are TLA+ sequences, so cell (i, j) is graph[i + 1][j + 1].       *)
(* Prices are decimal texts without a fraction; float(price) is then the   *)
(* whole number itself and str() of that float ends in ".0".               *)
(***************************************************************************)
EXTENDS Integers, Sequences, FiniteSets

VARIABLES
    schedules,        \* self.schedules: the rows of the csv file
    stations,         \* self.stations
    search_mode,      \* self._search_mode ("None" until set_search_by)
    weight_matrix,    \* self._weight_matrix / the solver's parameter graph
    start_vortex,     \* the solver's parameter start_vortex
    current_vortex,   \* the solver's local current_vortex
    passed_vortices,  \* the solver's local passed_vortices
    route_weight,     \* the solver's local route_weight
    weight_isfloat,   \* TRUE once route_weight is a Python float
    route,            \* find_the_best_route's local route
    scan,             \* position of "for schedule in self.schedules"
    out,              \* the lines printed by the running call
    pc,               \* where the program is
    departure,        \* argument of _get_weight_from_time
    arrival,          \* argument of _get_weight_from_time
    time_weight       \* its result (0 before the call)

vars == <<schedules, stations, search_mode, weight_matrix, start_vortex,
          current_vortex, passed_vortices, route_weight, weight_isfloat,
          route, scan, out, pc, departure, arrival, time_weight>>

\* math.inf; every real weight of the model is >= 0
Inf == -1

\* Bounds of the model
MaxVortices == 4
MaxFreeCells == 12
MaxSelfLoops == 0
MaxRecords == 4

(***************************************************************************)
(* Text helpers                                                            *)
(***************************************************************************)
Digits == <<"0", "1", "2", "3", "4", "5", "6", "7", "8", "9">>

DigitVal(c) == (CHOOSE k \in 1..10 : Digits[k] = c) - 1

\* the number written by the first k digits of s
RECURSIVE PyIntUpTo(_, _)
PyIntUpTo(s, k) ==
    IF k = 0 THEN 0 ELSE PyIntUpTo(s, k - 1) * 10 + DigitVal(s[k])

\* int(text) of a text of decimal digits
PyInt(s) == PyIntUpTo(s, Len(s))

\* str(n) of an int n >= 0
RECURSIVE StrInt(_)
StrInt(n) ==
    IF n < 10 THEN <<Digits[n + 1]>>
    ELSE StrInt(n \div 10) \o <<Digits[(n % 10) + 1]>>

\* float(text): the texts of the model have no fraction
PyFloat(s) == PyInt(s)

\* str(x) of a float x, math.inf included
StrFloat(x) == IF x = Inf THEN <<"i", "n", "f">> ELSE StrInt(x) \o <<".", "0">>

\* text.split(sep)
RECURSIVE Split(_, _)
Split(s, sep) ==
    IF \A k \in 1..Len(s) : s[k] # sep THEN <<s>>
    ELSE LET p == CHOOSE k \in 1..Len(s) :
                      s[k] = sep /\ \A m \in 1..(k - 1) : s[m] # sep
         IN  <<SubSeq(s, 1, p - 1)>> \o Split(SubSeq(s, p + 1, Len(s)), sep)

\* x in list
In(x, list) == \E k \in 1..Len(list) : list[k] = x

\* code points of the characters station names are made of
CodePoint(c) ==
    CASE c = "A" -> 65 [] c = "B" -> 66 [] c = "C" -> 67 [] c = "D" -> 68

\* a < b for Python str
RECURSIVE StrLess(_, _)
StrLess(a, b) ==
    IF Len(b) = 0 THEN FALSE
    ELSE IF Len(a) = 0 THEN TRUE
    ELSE IF a[1] # b[1] THEN CodePoint(a[1]) < CodePoint(b[1])
    ELSE StrLess(Tail(a), Tail(b))

\* sorted(set of str)
RECURSIVE Sorted(_)
Sorted(S) ==
    IF S = {} THEN <<>>
    ELSE LET m == CHOOSE x \in S : \A y \in S \ {x} : StrLess(x, y)
         IN  <<m>> \o Sorted(S \ {m})

\* list.index(x)
Index(list, x) == (CHOOSE k \in 1..Len(list) :
                       list[k] = x /\ \A m \in 1..(k - 1) : list[m] # x) - 1

(***************************************************************************)
(* Weight strategy                                                         *)
(***************************************************************************)
\* Local values are bound through a one-element set, {e : x \in {v}}, so
\* that v is evaluated once, as an assignment to a local variable is.
date_to_num(date) ==
    LET Num(parts) == PyInt(parts[1]) * 60 + PyInt(parts[2])
    IN  CHOOSE num \in {Num(parts) : parts \in {Split(date, ":")}} : TRUE

\* mutant: equal times do not wrap to the next day
get_weight_from_time_NoWrapOnEqual(dep, arr) ==
    LET Weight(num1, num2) ==
            IF num1 <= num2 THEN num2 - num1 ELSE (num2 + 1440) - num1
    IN  CHOOSE w \in {Weight(num1, num2) : num1 \in {date_to_num(dep)},
                                          num2 \in {date_to_num(arr)}} : TRUE

get_weight_from_time(dep, arr) ==
    LET Weight(num1, num2) ==
            IF num1 < num2 THEN num2 - num1 ELSE (num2 + 1440) - num1
    IN  CHOOSE w \in {Weight(num1, num2) : num1 \in {date_to_num(dep)},
                                          num2 \in {date_to_num(arr)}} : TRUE

\* self._get_weight as set by set_search_by
get_weight(mode, schedule) ==
    IF mode = "price" THEN PyFloat(schedule[4])
    ELSE get_weight_from_time(schedule[5], schedule[6])

\* str(weight) of a matrix cell as find_the_best_route stores it in a leg
StrWeight(mode, w) ==
    IF mode = "price" \/ w = Inf THEN StrFloat(w) ELSE StrInt(w)

\* mutant: the weight of the leg is not compared
is_exect_schedule_IgnoreWeight(mode, schedule, leg) ==
    <<schedule[2], schedule[3]>> = <<leg[1], leg[2]>>

\* self._is_exect_schedule as set by set_search_by; leg is route[0]
is_exect_schedule(mode, schedule, leg) ==
    IF mode = "price"
    THEN <<schedule[2], schedule[3], StrFloat(PyFloat(schedule[4]))>> = leg
    ELSE <<schedule[2], schedule[3],
           StrInt(get_weight_from_time(schedule[5], schedule[6]))>> = leg

\* the minutes of the time formatter
FormatMinutes(x) == x % 64

\* self._formatting_result as set by set_search_by
formatting_result(mode, x, isfloat) ==
    IF mode = "price"
    THEN (IF isfloat THEN StrFloat(x) ELSE StrInt(x)) \o <<"$">>
    ELSE StrInt(x \div 60) \o <<" hours and ">> \o StrInt(FormatMinutes(x))
             \o <<" minutes">>

(***************************************************************************)
(* Graph builder                                                           *)
(***************************************************************************)
get_stations(schs) ==
    Sorted({schs[k][2] : k \in 1..Len(schs)} \cup {schs[k][3] : k \in 1..Len(schs)})

\* a < b for weights, math.inf included
WLess(a, b) == a # Inf /\ (b = Inf \/ a < b)

\* mutant: the last row of a pair wins
RECURSIVE MatrixAfter_LastWins(_, _, _, _)
MatrixAfter_LastWins(schs, sts, mode, k) ==
    IF k = 0 THEN [i \in 1..Len(sts) |-> [j \in 1..Len(sts) |-> Inf]]
    ELSE LET m == MatrixAfter_LastWins(schs, sts, mode, k - 1)
             i == Index(sts, schs[k][2]) + 1
             j == Index(sts, schs[k][3]) + 1
             weight == get_weight(mode, schs[k])
         IN  [m EXCEPT ![i][j] = weight]

\* the matrix after the first k rows of schs have been processed
RECURSIVE MatrixAfter(_, _, _, _)
MatrixAfter(schs, sts, mode, k) ==
    IF k = 0 THEN [i \in 1..Len(sts) |-> [j \in 1..Len(sts) |-> Inf]]
    ELSE LET m == MatrixAfter(schs, sts, mode, k - 1)
             i == Index(sts, schs[k][2]) + 1
             j == Index(sts, schs[k][3]) + 1
             weight == get_weight(mode, schs[k])
         IN  IF WLess(weight, m[i][j])
             THEN [m EXCEPT ![i][j] = weight]
             ELSE m

get_weight_matrix(schs, sts, mode) == MatrixAfter(schs, sts, mode, Len(schs))

(***************************************************************************)
(* Constrained nearest-neighbour solver                                    *)
(***************************************************************************)
\* graph[i][j] for 0-based i, j
Cell(graph, i, j) == graph[i + 1][j + 1]

\* the vertex numbers 0 .. len(graph) - 1, in order
Vortices(graph) == [k \in 1..Len(graph) |-> k - 1]

isclosevortex(graph, passed, vortex) ==
    LET free_vort == Cardinality({i \in 0..(Len(graph) - 1) :
                         Cell(graph, vortex, i) # Inf /\ ~In(i, passed)})
    IN  IF free_vort > 1 \/ Len(passed) >= Len(graph) - 2 THEN FALSE ELSE TRUE

\* the list conn_vors of _check_vortex: the test "vor not in passed_vortices"
\* is applied to the weight vor of the cell, not to its index i
conn_vors(graph, passed, vortex) ==
    {i \in 0..(Len(graph) - 1) :
        Cell(graph, vortex, i) # Inf /\ ~In(Cell(graph, vortex, i), passed)}

\* mutant: the test "vortex in passed_vortices" is missing
check_vortex_NoVisitedTest(graph, passed, vortex) ==
    LET checked == {vor \in conn_vors(graph, passed, vortex) :
                       isclosevortex(graph, passed, vor)}
    IN  checked = {}

check_vortex(graph, passed, vortex) ==
    IF In(vortex, passed) THEN FALSE
    ELSE LET checked == {vor \in conn_vors(graph, passed, vortex) :
                            isclosevortex(graph, passed, vor)}
         IN  checked = {}

\* mutant: only the vertices with a finite edge from current are candidates
current_row_FiniteOnly(graph, passed, current) ==
    LET Accepted(i) == check_vortex(graph, passed, i)
                           /\ Cell(graph, current, i) # Inf
    IN  SelectSeq(Vortices(graph), Accepted)

\* the indices of current_row, in enumeration order
current_row(graph, passed, current) ==
    LET Accepted(i) == check_vortex(graph, passed, i)
    IN  SelectSeq(Vortices(graph), Accepted)

\* mutant: the last entry of least weight
RECURSIVE PyMin_LastWins(_, _, _)
PyMin_LastWins(graph, current, row) ==
    IF Len(row) = 1 THEN row[1]
    ELSE LET best == PyMin_LastWins(graph, current, SubSeq(row, 1, Len(row) - 1))
             last == row[Len(row)]
         IN  IF ~WLess(Cell(graph, current, best), Cell(graph, current, last))
             THEN last ELSE best

\* min(current_row, key=key_for_min): the first entry of least weight
RECURSIVE PyMin(_, _, _)
PyMin(graph, current, row) ==
    IF Len(row) = 1 THEN row[1]
    ELSE LET best == PyMin(graph, current, SubSeq(row, 1, Len(row) - 1))
             last == row[Len(row)]
         IN  IF WLess(Cell(graph, current, last), Cell(graph, current, best))
             THEN last ELSE best

\* mutant: the weight is added as it is, math.inf included
HopWeight_Unguarded(min_weight) == min_weight

\* what one hop adds to route_weight
HopWeight(min_weight) == IF min_weight # Inf THEN min_weight ELSE 0

\* one iteration of the while loop that selects a vertex
NNAStep ==
    /\ pc = "nna"
    /\ LET row == current_row(weight_matrix, passed_vortices, current_vortex)
       IN  /\ row # <<>>
           /\ LET nxt == PyMin(weight_matrix, current_vortex, row)
                  min_weight == Cell(weight_matrix, current_vortex, nxt)
              IN  /\ current_vortex' = nxt
                  /\ passed_vortices' = Append(passed_vortices, nxt)
                  /\ route_weight' = route_weight + HopWeight(min_weight)
                  /\ weight_isfloat' =
                         (weight_isfloat
                              \/ (min_weight # Inf /\ search_mode = "price"))
                  /\ pc' = IF Len(passed_vortices) + 1 = Len(weight_matrix)
                           THEN "nna_return" ELSE "nna"
    /\ UNCHANGED <<schedules, stations, search_mode, weight_matrix, start_vortex,
                   route, scan, out, departure, arrival, time_weight>>

\* one iteration of the while loop where min() is given an empty list
NNAValueError ==
    /\ pc = "nna"
    /\ current_row(weight_matrix, passed_vortices, current_vortex) = <<>>
    /\ pc' = "ValueError"
    /\ UNCHANGED <<schedules, stations, search_mode, weight_matrix, start_vortex,
                   current_vortex, passed_vortices, route_weight, weight_isfloat,
                   route, scan, out, departure, arrival, time_weight>>

(***************************************************************************)
(* SpecSolver: _nearest_neighbor_algorithm from every start vertex, on the *)
(* matrices of 2 .. MaxVortices vertices whose cells hold either math.inf  *)
(* or SolverWeight.  With 4 vertices and MaxFreeCells = 12 every           *)
(* off-diagonal cell is free; MaxSelfLoops bounds the diagonal cells that  *)
(* may hold an edge (Spec has a file row from a station to itself).        *)
(***************************************************************************)
SolverWeight(i, j) == 1 + ((i + 2 * j) % 3)

\* position of the off-diagonal cell (i, j), 1-based, in row-major order
OffDiagRank(n, i, j) == (i - 1) * (n - 1) + (IF j < i THEN j ELSE j - 1)

\* the cells that may or may not hold an edge: the first MaxFreeCells
\* off-diagonal cells and the first MaxSelfLoops diagonal cells
FreeCells(n) ==
    {c \in (1..n) \X (1..n) :
        IF c[1] = c[2] THEN c[1] <= MaxSelfLoops
        ELSE OffDiagRank(n, c[1], c[2]) <= MaxFreeCells}

\* the cells that always hold an edge: the other off-diagonal cells
FixedCells(n) ==
    {c \in (1..n) \X (1..n) :
        c[1] # c[2] /\ OffDiagRank(n, c[1], c[2]) > MaxFreeCells}

SolverGraphs(n) ==
    {[i \in 1..n |-> [j \in 1..n |->
          IF <<i, j>> \in E \cup FixedCells(n)
          THEN SolverWeight(i - 1, j - 1) ELSE Inf]] :
        E \in SUBSET FreeCells(n)}

InitSolver ==
    /\ \E n \in 2..MaxVortices : weight_matrix \in SolverGraphs(n)
    /\ start_vortex \in 0..(Len(weight_matrix) - 1)
    /\ current_vortex = start_vortex
    /\ passed_vortices = <<start_vortex>>
    /\ route_weight = 0
    /\ weight_isfloat = FALSE
    /\ pc = "nna"
    /\ search_mode = "None"
    /\ schedules = <<>> /\ stations = <<>> /\ route = <<>> /\ scan = 0
    /\ out = <<>> /\ departure = <<>> /\ arrival = <<>> /\ time_weight = 0

NextSolver == NNAStep \/ NNAValueError

SpecSolver == InitSolver /\ [][NextSolver]_vars

(***************************************************************************)
(* SpecTime: _get_weight_from_time on clock times                          *)
(***************************************************************************)
Minutes == {0, 1, 10, 30, 50, 59}

TimeText(h, m) ==
    <<Digits[(h \div 10) + 1], Digits[(h % 10) + 1], ":",
      Digits[(m \div 10) + 1], Digits[(m % 10) + 1]>>

Times == {TimeText(h, m) : h \in 0..23, m \in Minutes}

InitTime ==
    /\ departure \in Times
    /\ arrival \in Times
    /\ time_weight = 0
    /\ pc = "time_call"
    /\ schedules = <<>> /\ stations = <<>> /\ search_mode = "None"
    /\ weight_matrix = <<>> /\ start_vortex = 0 /\ current_vortex = 0
    /\ passed_vortices = <<>> /\ route_weight = 0 /\ weight_isfloat = FALSE
    /\ route = <<>> /\ scan = 0 /\ out = <<>>

TimeCall ==
    /\ pc = "time_call"
    /\ time_weight' = get_weight_from_time(departure, arrival)
    /\ pc' = "time_return"
    /\ UNCHANGED <<schedules, stations, search_mode, weight_matrix, start_vortex,
                   current_vortex, passed_vortices, route_weight, weight_isfloat,
                   route, scan, out, departure, arrival>>

NextTime == TimeCall

SpecTime == InitTime /\ [][NextTime]_vars

(***************************************************************************)
(* Spec: the program on csv files of at most MaxRecords rows of RecordPool *)
(***************************************************************************)
RecAB  == <<<<"1">>, <<"A">>, <<"B">>, <<"1", "0">>,
            <<"0", "8", ":", "0", "0">>, <<"0", "8", ":", "3", "0">>>>
RecBC  == <<<<"2">>, <<"B">>, <<"C">>, <<"5">>,
            <<"0", "8", ":", "3", "0">>, <<"0", "9", ":", "0", "0">>>>
RecCA  == <<<<"3">>, <<"C">>, <<"A">>, <<"7">>,
            <<"0", "9", ":", "0", "0">>, <<"0", "9", ":", "3", "0">>>>
\* the same origin, destination, price and times as RecBC
RecBC2 == <<<<"4">>, <<"B">>, <<"C">>, <<"5">>,
            <<"0", "8", ":", "3", "0">>, <<"0", "9", ":", "0", "0">>>>
\* dearer than RecBC, and faster (overnight, 20 minutes)
RecBC3 == <<<<"5">>, <<"B">>, <<"C">>, <<"9">>,
            <<"2", "3", ":", "5", "0">>, <<"0", "0", ":", "1", "0">>>>
RecCD  == <<<<"6">>, <<"C">>, <<"D">>, <<"1">>,
            <<"0", "9", ":", "0", "0">>, <<"0", "9", ":", "0", "0">>>>
RecDA  == <<<<"7">>, <<"D">>, <<"A">>, <<"2">>,
            <<"1", "0", ":", "0", "0">>, <<"1", "1", ":", "0", "4">>>>
RecCC  == <<<<"8">>, <<"C">>, <<"C">>, <<"3">>,
            <<"1", "2", ":", "0", "0">>, <<"1", "2", ":", "0", "2">>>>

RecordPool == {RecAB, RecBC, RecCA, RecBC2, RecBC3, RecCD, RecDA, RecCC}

\* the files: rows of the pool, no row twice
Files ==
    UNION {{f \in [1..n -> RecordPool] :
               \A a, b \in 1..n : a # b => f[a] # f[b]} : n \in 0..MaxRecords}

Params == {"price", "time", "speed"}

\* Schedule(path): lines 9-21
Init ==
    /\ schedules \in Files
    /\ stations = get_stations(schedules)
    /\ weight_matrix = <<>>
    /\ search_mode = "None"
    /\ start_vortex = 0 /\ current_vortex = 0 /\ passed_vortices = <<>>
    /\ route_weight = 0 /\ weight_isfloat = FALSE
    /\ route = <<>> /\ scan = 0 /\ out = <<>>
    /\ pc = "idle"
    /\ departure = <<>> /\ arrival = <<>> /\ time_weight = 0

\* between two calls on the instance
Callable == pc \in {"idle", "done"}

set_search_by(param) ==
    /\ Callable
    /\ IF param \in {"price", "time"}
       THEN search_mode' = param /\ pc' = pc
       ELSE search_mode' = search_mode /\ pc' = "Exception"
    /\ UNCHANGED <<schedules, stations, weight_matrix, start_vortex,
                   current_vortex, passed_vortices, route_weight, weight_isfloat,
                   route, scan, out, departure, arrival, time_weight>>

\* find_the_best_route, lines 126-128, up to the solver's first iteration:
\* the matrix is built and the solver is entered at start vertex 1
find_the_best_route ==
    /\ Callable
    /\ out' = <<>> /\ route' = <<>> /\ scan' = 0
    /\ start_vortex' = 1 /\ current_vortex' = 1 /\ passed_vortices' = <<1>>
    /\ route_weight' = 0 /\ weight_isfloat' = FALSE
    /\ IF search_mode = "None" /\ schedules # <<>>
       THEN /\ pc' = "TypeError"
            /\ weight_matrix' = weight_matrix
       ELSE /\ weight_matrix' = get_weight_matrix(schedules, stations, search_mode)
            /\ pc' = IF 1 >= Len(stations) THEN "IndexError" ELSE "nna"
    /\ UNCHANGED <<schedules, stations, search_mode, departure, arrival,
                   time_weight>>

\* the legs built from the solver's result, the wrap leg included
Legs(sts, graph, seq, mode) ==
    [k \in 1..Len(seq) |->
        LET p == seq[k]
            q == seq[(k % Len(sts)) + 1]
        IN  <<sts[p + 1], sts[q + 1], StrWeight(mode, Cell(graph, p, q))>>]

Header(mode, formatted) ==
    <<"The \"best\" route by ", mode, " for ">> \o formatted
        \o <<" through each station:">>

\* mutant: the wrap leg is not deleted
Materialize_KeepWrap ==
    /\ pc = "nna_return"
    /\ route' = Legs(stations, weight_matrix, passed_vortices, search_mode)
    /\ out' = <<Header(search_mode,
                       formatting_result(search_mode, route_weight, weight_isfloat))>>
    /\ scan' = 0
    /\ pc' = "match"
    /\ UNCHANGED <<schedules, stations, search_mode, weight_matrix, start_vortex,
                   current_vortex, passed_vortices, route_weight, weight_isfloat,
                   departure, arrival, time_weight>>

\* find_the_best_route, lines 129-139: the legs and the header
Materialize ==
    /\ pc = "nna_return"
    /\ LET legs == Legs(stations, weight_matrix, passed_vortices, search_mode)
       IN  route' = SubSeq(legs, 1, Len(legs) - 1)
    /\ out' = <<Header(search_mode,
                       formatting_result(search_mode, route_weight, weight_isfloat))>>
    /\ scan' = 0
    /\ pc' = "match"
    /\ UNCHANGED <<schedules, stations, search_mode, weight_matrix, start_vortex,
                   current_vortex, passed_vortices, route_weight, weight_isfloat,
                   departure, arrival, time_weight>>

\* "while route:" is false: the call returns
MatchExit ==
    /\ pc = "match" /\ route = <<>>
    /\ pc' = "done"
    /\ UNCHANGED <<schedules, stations, search_mode, weight_matrix, start_vortex,
                   current_vortex, passed_vortices, route_weight, weight_isfloat,
                   route, scan, out, departure, arrival, time_weight>>

\* the row under the for loop matches route[0]: print, del route[0], break
MatchPrint ==
    /\ pc = "match" /\ route # <<>> /\ scan < Len(schedules)
    /\ is_exect_schedule(search_mode, schedules[scan + 1], route[1])
    /\ out' = Append(out, schedules[scan + 1])
    /\ route' = Tail(route)
    /\ scan' = 0
    /\ UNCHANGED <<schedules, stations, search_mode, weight_matrix, start_vortex,
                   current_vortex, passed_vortices, route_weight, weight_isfloat,
                   pc, departure, arrival, time_weight>>

\* the row under the for loop does not match: next row
MatchSkip ==
    /\ pc = "match" /\ route # <<>> /\ scan < Len(schedules)
    /\ ~is_exect_schedule(search_mode, schedules[scan + 1], route[1])
    /\ scan' = scan + 1
    /\ UNCHANGED <<schedules, stations, search_mode, weight_matrix, start_vortex,
                   current_vortex, passed_vortices, route_weight, weight_isfloat,
                   route, out, pc, departure, arrival, time_weight>>

\* the for loop ran out of rows: the while loop starts it again
MatchRescan ==
    /\ pc = "match" /\ route # <<>> /\ scan = Len(schedules)
    /\ scan' = 0
    /\ UNCHANGED <<schedules, stations, search_mode, weight_matrix, start_vortex,
                   current_vortex, passed_vortices, route_weight, weight_isfloat,
                   route, out, pc, departure, arrival, time_weight>>

\* the steps of the solver inside find_the_best_route
Solving ==
    \/ NNAStep
    \/ NNAValueError

\* the steps of the loop "while route:" of find_the_best_route
Matching ==
    \/ MatchExit
    \/ MatchPrint
    \/ MatchSkip
    \/ MatchRescan

Next ==
    \/ \E param \in Params : set_search_by(param)
    \/ find_the_best_route
    \/ Solving
    \/ Materialize
    \/ Matching

Spec == Init /\ [][Next]_vars

\* the program is sequential and nothing suspends a running call: the loop
\* "while route:" always takes its next step
FairSpec == Spec /\ WF_vars(Matching)

(***************************************************************************)
(* Vocabulary of the claims                                                *)
(***************************************************************************)
NumVortices == Len(weight_matrix)

AllVortices == 0..(NumVortices - 1)

Visited == {passed_vortices[k] : k \in 1..Len(passed_vortices)}

\* the filter's verdict on v in the current state
Accepts(v) == check_vortex(weight_matrix, passed_vortices, v)

AnyAccepted == {v \in AllVortices : Accepts(v)}

FiniteAccepted ==
    {v \in AnyAccepted : Cell(weight_matrix, current_vortex, v) # Inf}

\* a is strictly lighter than b, math.inf being the heaviest
LighterThan(a, b) == IF a = Inf THEN FALSE ELSE IF b = Inf THEN TRUE ELSE a < b

\* what a hop of weight w is worth in the total
HopCost(w) == IF w = Inf THEN 0 ELSE w

\* the matrix weights of the first k consecutive pairs of seq, the pair
\* number Len(seq) being the wrap pair (last, first)
RECURSIVE SumHops(_, _, _)
SumHops(graph, seq, k) ==
    IF k = 0 THEN 0
    ELSE SumHops(graph, seq, k - 1)
             + HopCost(Cell(graph, seq[k], seq[(k % Len(seq)) + 1]))

\* the finite edges from w to vertices not yet visited
FreeOut(w) ==
    Cardinality({i \in AllVortices :
                    Cell(weight_matrix, w, i) # Inf /\ i \notin Visited})

(***************************************************************************)
(* C1: whenever the solver returns for an N x N matrix and a start index   *)
(* s, the visiting sequence has length N, starts with s and holds every    *)
(* index 0..N-1 exactly once.                                              *)
(***************************************************************************)
C1_Permutation ==
    pc = "nna_return" =>
        /\ Len(passed_vortices) = NumVortices
        /\ passed_vortices[1] = start_vortex
        /\ \A v \in AllVortices :
               Cardinality({k \in 1..Len(passed_vortices) :
                               passed_vortices[k] = v}) = 1

C1_Witness ==
    pc = "nna_return" /\ NumVortices >= 4 /\ start_vortex = 2

(***************************************************************************)
(* C2 as stated: the returned total is the sum of the matrix weights over  *)
(* every consecutive pair of the sequence, the wrap pair (last, first)     *)
(* included, an infinite hop counting zero.                                *)
(***************************************************************************)
C2_WrapInclusive ==
    pc = "nna_return" =>
        route_weight = SumHops(weight_matrix, passed_vortices,
                               Len(passed_vortices))

(***************************************************************************)
(* C2 amended: the returned total is the sum of the matrix weights over    *)
(* the N-1 consecutive pairs of the sequence, the wrap pair excluded, an   *)
(* infinite hop counting zero.                                             *)
(***************************************************************************)
C2_WrapExclusive ==
    pc = "nna_return" =>
        route_weight = SumHops(weight_matrix, passed_vortices,
                               Len(passed_vortices) - 1)

C2_Witness ==
    /\ pc = "nna_return"
    /\ Cell(weight_matrix, passed_vortices[Len(passed_vortices)],
            passed_vortices[1]) # Inf
    /\ \E k \in 1..(Len(passed_vortices) - 1) :
           Cell(weight_matrix, passed_vortices[k], passed_vortices[k + 1]) = Inf
    /\ \E k \in 1..(Len(passed_vortices) - 1) :
           Cell(weight_matrix, passed_vortices[k], passed_vortices[k + 1]) # Inf

(***************************************************************************)
(* C4 as stated: when no unvisited vertex is both reachable from the       *)
(* current vertex by a finite edge and accepted by the filter, the step    *)
(* aborts: it does not advance to another vertex.                          *)
(***************************************************************************)
C4_AbortsWithoutFiniteCandidate ==
    [][(pc = "nna" /\ FiniteAccepted = {}) =>
           (pc' = "ValueError" /\ passed_vortices' = passed_vortices)]_vars

(***************************************************************************)
(* C4 amended: when no unvisited vertex is accepted by the filter, whether *)
(* its edge from the current vertex is finite or not, the step aborts and  *)
(* nothing is returned; otherwise the step advances to an accepted vertex, *)
(* also when every accepted vertex has an infinite edge.  A returned       *)
(* sequence skips no vertex.                                               *)
(***************************************************************************)
C4_AbortsWithoutCandidate ==
    /\ [][pc = "nna" =>
             IF AnyAccepted = {}
             THEN /\ pc' = "ValueError"
                  /\ passed_vortices' = passed_vortices
                  /\ route_weight' = route_weight
             ELSE /\ pc' \in {"nna", "nna_return"}
                  /\ \E v \in AnyAccepted :
                         passed_vortices' = Append(passed_vortices, v)]_vars
    /\ [](pc = "nna_return" => AllVortices \subseteq Visited)
    /\ [](pc = "ValueError" => AnyAccepted = {})

C4_Witness ==
    pc = "ValueError" /\ AnyAccepted = {} /\ AllVortices \ Visited # {}

(***************************************************************************)
(* C9 as stated: the filter never accepts a visited vertex, and accepts an *)
(* unvisited v iff v has no unvisited neighbour w, reached from v by a     *)
(* finite edge, with (i) at most one finite edge from w to an unvisited    *)
(* vertex and (ii) at least N-2 vertices already visited.                  *)
(***************************************************************************)
C9_FilterAsStated ==
    pc = "nna" =>
        \A v \in AllVortices :
            Accepts(v) <=>
                /\ v \notin Visited
                /\ ~\E w \in AllVortices \ Visited :
                       /\ Cell(weight_matrix, v, w) # Inf
                       /\ FreeOut(w) <= 1
                       /\ Len(passed_vortices) >= NumVortices - 2

(***************************************************************************)
(* C9 with clause (ii) read as _isclosevortex has it (fewer than N-2       *)
(* vertices visited) and the neighbours w still the unvisited ones, as the *)
(* claim and the test "i not in passed_vortices" of _isclosevortex have    *)
(* them: _check_vortex tests the weight of the edge from v to w against    *)
(* the visited vertex numbers instead of w, so it also fails.              *)
(***************************************************************************)
C9_UnvisitedNeighbours ==
    pc = "nna" =>
        \A v \in AllVortices :
            Accepts(v) <=>
                /\ v \notin Visited
                /\ ~\E w \in AllVortices \ Visited :
                       /\ Cell(weight_matrix, v, w) # Inf
                       /\ FreeOut(w) <= 1
                       /\ Len(passed_vortices) < NumVortices - 2

(***************************************************************************)
(* C10: at every step the next vertex is the accepted unvisited vertex of  *)
(* least edge weight from the current vertex, the lowest index among equal *)
(* minima; a vertex with an infinite edge is chosen only when no accepted  *)
(* vertex has a finite edge, and such a hop adds zero to the total.        *)
(***************************************************************************)
C10_NearestAccepted ==
    [][(pc = "nna" /\ passed_vortices' # passed_vortices) =>
          LET nxt == current_vortex'
              w == Cell(weight_matrix, current_vortex, nxt)
          IN  /\ passed_vortices' = Append(passed_vortices, nxt)
              /\ nxt \in AnyAccepted
              /\ nxt \notin Visited
              /\ \A j \in AnyAccepted :
                     LET wj == Cell(weight_matrix, current_vortex, j)
                     IN  /\ ~LighterThan(wj, w)
                         /\ wj = w => nxt <= j
              /\ w = Inf => FiniteAccepted = {}
              /\ route_weight' = route_weight + (IF w = Inf THEN 0 ELSE w)]_vars

\* a run that took a hop where a higher vertex tied on a finite weight, and
\* a hop over an infinite edge
C10_Witness ==
    /\ pc \in {"nna", "nna_return"}
    /\ \E k \in 1..(Len(passed_vortices) - 1) :
           LET pre == SubSeq(passed_vortices, 1, k)
               cur == passed_vortices[k]
               nxt == passed_vortices[k + 1]
           IN  /\ Cell(weight_matrix, cur, nxt) # Inf
               /\ \E j \in AllVortices \ {nxt} :
                      /\ check_vortex(weight_matrix, pre, j)
                      /\ Cell(weight_matrix, cur, j) = Cell(weight_matrix, cur, nxt)
    /\ \E k \in 1..(Len(passed_vortices) - 1) :
           Cell(weight_matrix, passed_vortices[k], passed_vortices[k + 1]) = Inf

(***************************************************************************)
(* Vocabulary of the end-to-end claims                                     *)
(***************************************************************************)
\* the mode of the call whose output is in out
RunMode == out[1][2]

\* leg number k of the visiting sequence, k = Len being the wrap leg
SequenceLeg(k) ==
    LET p == passed_vortices[k]
        q == passed_vortices[(k % Len(passed_vortices)) + 1]
    IN  <<stations[p + 1], stations[q + 1],
          StrWeight(RunMode, Cell(weight_matrix, p, q))>>

\* the rows with the origin, the destination and the weight of the leg
LegRecords(leg) ==
    {k \in 1..Len(schedules) :
        /\ schedules[k][2] = leg[1]
        /\ schedules[k][3] = leg[2]
        /\ StrWeight(RunMode, get_weight(RunMode, schedules[k])) = leg[3]}

FirstOf(S) == CHOOSE k \in S : \A m \in S : k <= m

\* the weights of the rows from station number i to station number j
PairWeights(i, j) ==
    {get_weight(search_mode, schedules[k]) :
        k \in {m \in 1..Len(schedules) :
                  schedules[m][2] = stations[i] /\ schedules[m][3] = stations[j]}}

\* minutes since midnight of a text "HH:MM", read digit by digit
ClockMinutes(t) ==
    60 * (10 * DigitVal(t[1]) + DigitVal(t[2]))
        + 10 * DigitVal(t[4]) + DigitVal(t[5])

C3_File == <<RecAB, RecBC, RecCA>>

(***************************************************************************)
(* C3 as stated: in price mode on A->B 10, B->C 5, C->A 7 the header       *)
(* reports "22.0$" and exactly the A->B and then the B->C record are       *)
(* printed.                                                                *)
(***************************************************************************)
C3_AsStated ==
    (schedules = C3_File /\ pc = "done" /\ RunMode = "price") =>
        out = <<Header("price", <<"2", "2", ".", "0", "$">>), RecAB, RecBC>>

(***************************************************************************)
(* C3 amended: in price mode on A->B 10, B->C 5, C->A 7 the header reports *)
(* "12.0$" and exactly two records are printed, the B->C record and then   *)
(* the C->A record; the wrap leg A->B is the one dropped.                  *)
(***************************************************************************)
C3_OfTheCode ==
    (schedules = C3_File /\ pc = "done" /\ RunMode = "price") =>
        out = <<Header("price", <<"1", "2", ".", "0", "$">>), RecBC, RecCA>>

C3_Witness ==
    schedules = C3_File /\ pc = "done" /\ RunMode = "price" /\ Len(out) = 3

(***************************************************************************)
(* C5: after the solver returns, the matching loop terminates iff every    *)
(* non-wrap leg has a record of the same origin, destination and weight;   *)
(* it has then printed N-1 records, one per non-wrap leg in visiting       *)
(* order, each the first matching record in input order.  A leg without a  *)
(* matching record keeps the loop running for ever.                        *)
(***************************************************************************)
C5_MatchingLoop ==
    /\ [](pc = "done" =>
            /\ Len(out) = Len(stations)
            /\ \A k \in 1..(Len(stations) - 1) :
                   /\ LegRecords(SequenceLeg(k)) # {}
                   /\ out[k + 1] = schedules[FirstOf(LegRecords(SequenceLeg(k)))])
    /\ [][(pc = "match" /\ route # <<>> /\ LegRecords(route[1]) = {}) =>
             (pc' = "match" /\ route' = route /\ out' = out)]_vars
    /\ [](pc = "match" => ENABLED Matching)
    /\ (pc = "match" /\ \A k \in 1..Len(route) : LegRecords(route[k]) # {})
           ~> (pc = "done")

\* a finished call where RecBC3 came first in the file but weighs more than
\* the leg, and two later rows both match the leg
C5_Witness ==
    /\ pc = "done" /\ RunMode = "price" /\ Len(out) >= 3
    /\ schedules[1] = RecBC3
    /\ \E k \in 1..(Len(stations) - 1) :
           Cardinality(LegRecords(SequenceLeg(k))) >= 2

(***************************************************************************)
(* C6: the stations are the sorted, duplicate-free union of all origins    *)
(* and destinations, and cell (i, j) of the matrix is the least weight of  *)
(* the records from station i to station j, infinity when there is none.   *)
(***************************************************************************)
C6_MatrixIsMinimum ==
    /\ \A k \in 1..(Len(stations) - 1) : StrLess(stations[k], stations[k + 1])
    /\ {stations[k] : k \in 1..Len(stations)} =
           {schedules[k][2] : k \in 1..Len(schedules)}
               \cup {schedules[k][3] : k \in 1..Len(schedules)}
    /\ pc \in {"nna", "nna_return", "match", "ValueError", "IndexError"} =>
           /\ Len(weight_matrix) = Len(stations)
           /\ \A i, j \in 1..Len(stations) :
                  /\ Len(weight_matrix[i]) = Len(stations)
                  /\ IF PairWeights(i, j) = {}
                     THEN weight_matrix[i][j] = Inf
                     ELSE /\ weight_matrix[i][j] \in PairWeights(i, j)
                          /\ \A w \in PairWeights(i, j) : weight_matrix[i][j] <= w

\* a matrix with a pair served by records of different weights, the lighter
\* one first in the file, and a pair without a record
C6_Witness ==
    /\ pc = "nna" /\ search_mode = "price"
    /\ Len(schedules) >= 2 /\ schedules[1] = RecBC /\ schedules[2] = RecBC3
    /\ \E i, j \in 1..Len(stations) : PairWeights(i, j) = {}

(***************************************************************************)
(* C7: for clock times 00:00..23:59 the time weight is arrival minus       *)
(* departure in minutes when the arrival is strictly later, and arrival    *)
(* plus 1440 minus departure otherwise; it lies in 1..1440, and            *)
(* 23:50 -> 00:10 gives 20.                                                *)
(***************************************************************************)
C7_TimeWeight ==
    pc = "time_return" =>
        LET d == ClockMinutes(departure)
            a == ClockMinutes(arrival)
        IN  /\ time_weight = IF a > d THEN a - d ELSE (a + 1440) - d
            /\ time_weight >= 1 /\ time_weight <= 1440
            /\ (departure = TimeText(23, 50) /\ arrival = TimeText(0, 10))
                   => time_weight = 20

C7_Witness ==
    /\ pc = "time_return"
    /\ departure = TimeText(23, 50) /\ arrival = TimeText(0, 10)
    /\ time_weight = 20

(***************************************************************************)
(* C8: in time mode the header renders a total of x minutes as             *)
(* "H hours and M minutes" with H = x div 60 and M = x mod 60.             *)
(***************************************************************************)
C8_MinutesModulo60 ==
    (pc \in {"match", "done"} /\ RunMode = "time") =>
        out[1] = Header("time",
                        StrInt(route_weight \div 60) \o <<" hours and ">>
                            \o StrInt(route_weight % 60) \o <<" minutes">>)

====
